---- MODULE Spec2Model ----
(***************************************************************************)
(* Ring segment generator (streamlit_app.py): the geometry solver          *)
(* RingSegmentGenerator.calculate_segment_geometry, the two exporters      *)
(* create_dxf_segment and create_pdf_drawing, the drawing of one unit      *)
(* (_draw_unit_with_dimensions) and the working list of main().            *)
(*                                                                         *)
(* Numbers.  Python floats are modelled by exact rationals [n, d] kept in  *)
(* lowest terms.  math.pi is the rational PiNum / PiDen, math.sin is       *)
(* Bhaskara's rational approximation (exact at 0, 30, 90, 150, 180         *)
(* degrees, symmetric about 90 degrees, strictly increasing on [0, 90])    *)
(* and math.asin is its principal-value inverse resolved to whole degrees. *)
(* Python's None is the empty tuple, a given value v is <<v>>.             *)
(***************************************************************************)
EXTENDS Integers, Sequences, FiniteSets, TLC

(***************************************************************************)
(* Bounds of the model.                                                    *)
(***************************************************************************)
\* lengths (radii, depth, chord, arc) are drawn from 0..MaxLen millimetres
MaxLen == 3
\* angles are drawn from {0, 30, ..., 30 * MaxAngleIdx} degrees
MaxAngleIdx == 12
\* an export call is given a list of at most MaxUnits units
MaxUnits == 10
\* the working list of the app holds at most MaxSessionUnits units
MaxSessionUnits == 2

(***************************************************************************)
(* Float arithmetic as exact rationals.                                    *)
(***************************************************************************)
Abs(i) == IF i < 0 THEN -i ELSE i

RECURSIVE GCD(_, _)
GCD(a, b) == IF b = 0 THEN a ELSE GCD(b, a % b)

Rat(n, d) ==
    LET g == GCD(Abs(n), Abs(d))
        s == IF d < 0 THEN -1 ELSE 1
    IN  [n |-> s * (n \div g), d |-> s * (d \div g)]

Num(i) == [n |-> i, d |-> 1]

RNeg(a) == [n |-> -a.n, d |-> a.d]

RAdd(a, b) ==
    LET g == GCD(a.d, b.d)
    IN  Rat(a.n * (b.d \div g) + b.n * (a.d \div g), (a.d \div g) * b.d)

RSub(a, b) == RAdd(a, RNeg(b))

RMul(a, b) ==
    LET g1 == GCD(Abs(a.n), b.d)
        g2 == GCD(Abs(b.n), a.d)
    IN  Rat((a.n \div g1) * (b.n \div g2), (a.d \div g2) * (b.d \div g1))

\* b is not zero
RDiv(a, b) == RMul(a, Rat(b.d, b.n))

RLt(a, b) ==
    LET g == GCD(a.d, b.d)
    IN  a.n * (b.d \div g) < b.n * (a.d \div g)

RLe(a, b) ==
    LET g == GCD(a.d, b.d)
    IN  a.n * (b.d \div g) <= b.n * (a.d \div g)

RMin(a, b) == IF RLe(a, b) THEN a ELSE b

RMax(a, b) == IF RLe(a, b) THEN b ELSE a

Zero == Num(0)

(***************************************************************************)
(* The math module.                                                        *)
(***************************************************************************)
PiNum == 22
PiDen == 7

Pi == Rat(PiNum, PiDen)

\* math.radians
Radians(deg) == RMul(deg, Rat(PiNum, 180 * PiDen))

\* math.degrees
Degrees(rad) == RMul(rad, Rat(180 * PiDen, PiNum))

\* x - 2*pi*floor(x / (2*pi))
Mod2Pi(x) ==
    LET q == RDiv(x, RMul(Num(2), Pi))
    IN  RSub(x, RMul(Num(q.n \div q.d), RMul(Num(2), Pi)))

\* sine on [0, pi]: 16 x (pi - x) / (5 pi^2 - 4 x (pi - x))
SinHalfTurn(x) ==
    LET p == RMul(x, RSub(Pi, x))
    IN  RDiv(RMul(Num(16), p),
             RSub(RMul(Num(5), RMul(Pi, Pi)), RMul(Num(4), p)))

\* math.sin
Sin(x) ==
    LET r == Mod2Pi(x)
    IN  IF RLe(r, Pi) THEN SinHalfTurn(r) ELSE RNeg(SinHalfTurn(RSub(r, Pi)))

\* math.cos
Cos(x) == Sin(RAdd(x, RDiv(Pi, Num(2))))

\* math.ceil
Ceil(x) == -((-x.n) \div x.d)

\* math.ceil(math.sqrt(x)) for x >= 0: the least k >= 0 with k * k >= x
RECURSIVE CeilSqrtFrom(_, _)
CeilSqrtFrom(x, k) ==
    IF RLe(x, Num(k * k)) THEN k ELSE CeilSqrtFrom(x, k + 1)

CeilSqrt(x) == CeilSqrtFrom(x, 0)

\* the greatest whole number of degrees a in lo..hi with sin(a) <= x
RECURSIVE AsinSearch(_, _, _)
AsinSearch(x, lo, hi) ==
    IF lo = hi THEN lo
    ELSE LET mid == (lo + hi + 1) \div 2
         IN  IF RLe(Sin(Radians(Num(mid))), x)
             THEN AsinSearch(x, mid, hi)
             ELSE AsinSearch(x, lo, mid - 1)

\* math.asin for -1 <= x <= 1: the principal value, in [-pi/2, pi/2]
Asin(x) ==
    IF RLe(Zero, x) THEN Radians(Num(AsinSearch(x, 0, 90)))
    ELSE RNeg(Radians(Num(AsinSearch(RNeg(x), 0, 90))))

(***************************************************************************)
(* Optional arguments.                                                     *)
(***************************************************************************)
None == <<>>

Some(v) == <<v>>

Val(o) == o[1]

(***************************************************************************)
(* calculate_segment_geometry                                              *)
(***************************************************************************)
Raised(kind, msg) == [outcome |-> kind, message |-> msg]

\* lines 66-79: the radii, or the ValueError
ResolveRadii(inner_radius, outer_radius, depth) ==
    IF inner_radius = None /\ outer_radius = None
    THEN Raised("ValueError", "Must specify at least one radius")
    ELSE LET radii ==
                 IF depth # None
                 THEN IF inner_radius # None
                      THEN [inner |-> Val(inner_radius),
                            outer |-> RAdd(Val(inner_radius), Val(depth))]
                      ELSE [inner |-> RSub(Val(outer_radius), Val(depth)),
                            outer |-> Val(outer_radius)]
                 ELSE IF inner_radius = None \/ outer_radius = None
                      THEN None
                      ELSE [inner |-> Val(inner_radius),
                            outer |-> Val(outer_radius)]
         IN  IF radii = None
             THEN Raised("ValueError",
                         "Must specify both radii or one radius with depth")
             ELSE IF RLe(radii.outer, radii.inner)
             THEN Raised("ValueError",
                         "Inner radius must be less than outer radius")
             ELSE [outcome |-> "ok", inner |-> radii.inner,
                   outer |-> radii.outer]

\* mutant of ChordExceedsDiameter: >= for >
ChordExceedsDiameter_inclusive(chord_length, outer_radius) ==
    RLe(RMul(Num(2), outer_radius), chord_length)

\* line 86: chord_length > 2 * outer_radius
ChordExceedsDiameter(chord_length, outer_radius) ==
    RLt(RMul(Num(2), outer_radius), chord_length)

\* mutant of AngleFromChord: the half angle is not doubled
AngleFromChord_undoubled(chord_length, outer_radius) ==
    Asin(RDiv(chord_length, RMul(Num(2), outer_radius)))

\* line 88: 2 * math.asin(chord_length / (2 * outer_radius))
AngleFromChord(chord_length, outer_radius) ==
    RMul(Num(2), Asin(RDiv(chord_length, RMul(Num(2), outer_radius))))

\* lines 81-93: angle_rad, or the error raised
ResolveAngle(outer_radius, chord_length, arc_length, angle_degrees) ==
    IF angle_degrees # None
    THEN [outcome |-> "ok", angle_rad |-> Radians(Val(angle_degrees))]
    ELSE IF chord_length # None
    THEN IF ChordExceedsDiameter(Val(chord_length), outer_radius)
         THEN Raised("ValueError", "Chord length exceeds diameter")
         ELSE IF outer_radius = Zero
         THEN Raised("ZeroDivisionError", "float division by zero")
         ELSE [outcome |-> "ok",
               angle_rad |-> AngleFromChord(Val(chord_length), outer_radius)]
    ELSE IF arc_length # None
    THEN IF outer_radius = Zero
         THEN Raised("ZeroDivisionError", "float division by zero")
         ELSE [outcome |-> "ok",
               angle_rad |-> RDiv(Val(arc_length), outer_radius)]
    ELSE Raised("ValueError",
                "Must specify angle, chord length, or arc length")

\* mutant of ArcLength: the angle in degrees for the angle in radians
ArcLength_degrees(radius, angle_rad) == RMul(radius, Degrees(angle_rad))

\* lines 101-102: radius * angle_rad
ArcLength(radius, angle_rad) == RMul(radius, angle_rad)

\* lines 103-104: 2 * radius * math.sin(angle_rad / 2)
ChordLength(radius, angle_rad) ==
    RMul(RMul(Num(2), radius), Sin(RDiv(angle_rad, Num(2))))

\* lines 95-105: the returned dict
Geometry(inner_radius, outer_radius, angle_rad) ==
    [outcome            |-> "ok",
     inner_radius       |-> inner_radius,
     outer_radius       |-> outer_radius,
     depth              |-> RSub(outer_radius, inner_radius),
     angle_rad          |-> angle_rad,
     angle_degrees      |-> Degrees(angle_rad),
     inner_arc_length   |-> ArcLength(inner_radius, angle_rad),
     outer_arc_length   |-> ArcLength(outer_radius, angle_rad),
     inner_chord_length |-> ChordLength(inner_radius, angle_rad),
     outer_chord_length |-> ChordLength(outer_radius, angle_rad)]

calculate_segment_geometry(inner_radius, outer_radius, depth, chord_length, arc_length, angle_degrees) ==
    LET radii == ResolveRadii(inner_radius, outer_radius, depth)
    IN  IF radii.outcome # "ok" THEN radii
        ELSE LET angle == ResolveAngle(radii.outer, chord_length,
                                       arc_length, angle_degrees)
             IN  IF angle.outcome # "ok" THEN angle
                 ELSE Geometry(radii.inner, radii.outer, angle.angle_rad)

(***************************************************************************)
(* The page and the drawing area of create_pdf_drawing.                    *)
(***************************************************************************)
\* reportlab.lib.units.mm, in points: 72 / 25.4
mm == Rat(360, 127)

Mm(l) == RMul(Num(l), mm)

\* line 168
margin == Mm(15)

\* line 169
title_block_width == Mm(150)

\* line 170
title_block_height == Mm(30)

\* line 162: landscape(A3) is 420 mm x 297 mm
page_width == Mm(420)

page_height == Mm(297)

\* line 173
drawing_width ==
    RSub(RSub(page_width, RMul(Num(2), margin)), title_block_width)

\* line 174
drawing_height ==
    RSub(RSub(page_height, RMul(Num(2), margin)), title_block_height)

(***************************************************************************)
(* The layout of create_pdf_drawing, lines 181-293.                        *)
(***************************************************************************)
\* cols of the grid branches (lines 227, 244, 261, 278)
GridCols(num_units) ==
    IF num_units = 4 THEN 2
    ELSE IF num_units <= 6 THEN 3
    ELSE IF num_units <= 9 THEN 3
    ELSE LET c == CeilSqrt(Rat(num_units * 13, 10))
         IN  IF c < 4 THEN c ELSE 4

\* mutant of GridRows: num_units // cols for math.ceil(num_units / cols)
GridRows_floor(num_units) ==
    IF num_units = 4 THEN 2
    ELSE IF num_units <= 6 THEN 2
    ELSE IF num_units <= 9 THEN 3
    ELSE num_units \div GridCols(num_units)

\* rows of the grid branches (lines 227, 244, 261, 279)
GridRows(num_units) ==
    IF num_units = 4 THEN 2
    ELSE IF num_units <= 6 THEN 2
    ELSE IF num_units <= 9 THEN 3
    ELSE Ceil(Rat(num_units, GridCols(num_units)))

\* mutant of RowOf: % for //
RowOf_modulo(idx, cols) == idx % cols

\* row = idx // cols
RowOf(idx, cols) == idx \div cols

\* col = idx % cols
ColOf(idx, cols) == idx % cols

\* the (row, col) of unit idx (0-based) in the grid branches, lines 229-231,
\* 246-248, 263-265, 282-284; the branches for 1 to 3 units have none
GridCell(num_units, idx) ==
    IF num_units < 4 THEN None
    ELSE Some([row |-> RowOf(idx, GridCols(num_units)),
               col |-> ColOf(idx, GridCols(num_units))])

\* positions of the three-unit branch, lines 210-214, as (x, y) fractions
positions ==
    <<  <<Rat(25, 100), Rat(7, 10)>>,
        <<Rat(75, 100), Rat(7, 10)>>,
        <<Rat(5, 10), Rat(3, 10)>>  >>

\* x_offset of unit idx (0-based) among num_units
x_offset(num_units, idx) ==
    LET w == drawing_width
        col == ColOf(idx, GridCols(num_units))
    IN  IF num_units = 1
        THEN RAdd(margin, RDiv(w, Num(2)))
        ELSE IF num_units = 2
        THEN RAdd(RAdd(margin, RDiv(RMul(Num(idx), w), Num(2))),
                  RDiv(w, Num(4)))
        ELSE IF num_units = 3
        THEN RAdd(margin, RMul(positions[idx + 1][1], w))
        ELSE IF num_units = 4
        THEN RAdd(RAdd(margin, RDiv(RMul(Num(col), w), Num(2))),
                  RDiv(w, Num(4)))
        ELSE IF num_units <= 9
        THEN RAdd(RAdd(margin, RDiv(RMul(Num(col), w), Num(3))),
                  RDiv(w, Num(6)))
        ELSE RAdd(margin,
                  RMul(RAdd(Num(col), Rat(1, 2)),
                       RDiv(w, Num(GridCols(num_units)))))

\* y_offset of unit idx (0-based) among num_units
y_offset(num_units, idx) ==
    LET h == drawing_height
        top == RSub(page_height, margin)
        row == RowOf(idx, GridCols(num_units))
    IN  IF num_units <= 2
        THEN RSub(top, RDiv(h, Num(2)))
        ELSE IF num_units = 3
        THEN RSub(top, RMul(positions[idx + 1][2], h))
        ELSE IF num_units <= 6
        THEN RSub(RSub(top, RDiv(RMul(Num(row), h), Num(2))),
                  RDiv(h, Num(4)))
        ELSE IF num_units <= 9
        THEN RSub(RSub(top, RDiv(RMul(Num(row), h), Num(3))),
                  RDiv(h, Num(6)))
        ELSE RSub(top,
                  RMul(RAdd(Num(row), Rat(1, 2)),
                       RDiv(h, Num(GridRows(num_units)))))

\* mutant of max_size: max(cell_width, cell_height) for min
max_size_larger(num_units) ==
    LET w == drawing_width
        h == drawing_height
    IN  IF num_units = 1
        THEN RMax(RMul(w, Rat(9, 10)), RMul(h, Rat(9, 10)))
        ELSE IF num_units = 2
        THEN RMax(RDiv(w, Rat(22, 10)), RMul(h, Rat(6, 10)))
        ELSE IF num_units = 3
        THEN RMax(RDiv(w, Rat(25, 10)), RDiv(h, Rat(25, 10)))
        ELSE IF num_units = 4
        THEN RMax(RDiv(w, Rat(23, 10)), RDiv(h, Rat(23, 10)))
        ELSE IF num_units <= 6
        THEN RMax(RDiv(w, Rat(33, 10)), RDiv(h, Rat(23, 10)))
        ELSE IF num_units <= 9
        THEN RMax(RDiv(w, Rat(34, 10)), RDiv(h, Rat(34, 10)))
        ELSE RMul(RMax(RDiv(w, RAdd(Num(GridCols(num_units)), Rat(1, 2))),
                       RDiv(h, RAdd(Num(GridRows(num_units)), Rat(1, 2)))),
                  Rat(85, 100))

\* the max_size passed to _draw_unit_with_dimensions
max_size(num_units) ==
    LET w == drawing_width
        h == drawing_height
    IN  IF num_units = 1
        THEN RMin(RMul(w, Rat(9, 10)), RMul(h, Rat(9, 10)))
        ELSE IF num_units = 2
        THEN RMin(RDiv(w, Rat(22, 10)), RMul(h, Rat(6, 10)))
        ELSE IF num_units = 3
        THEN RMin(RDiv(w, Rat(25, 10)), RDiv(h, Rat(25, 10)))
        ELSE IF num_units = 4
        THEN RMin(RDiv(w, Rat(23, 10)), RDiv(h, Rat(23, 10)))
        ELSE IF num_units <= 6
        THEN RMin(RDiv(w, Rat(33, 10)), RDiv(h, Rat(23, 10)))
        ELSE IF num_units <= 9
        THEN RMin(RDiv(w, Rat(34, 10)), RDiv(h, Rat(34, 10)))
        ELSE RMul(RMin(RDiv(w, RAdd(Num(GridCols(num_units)), Rat(1, 2))),
                       RDiv(h, RAdd(Num(GridRows(num_units)), Rat(1, 2)))),
                  Rat(85, 100))

\* what _draw_unit_with_dimensions puts on the canvas for one unit, lines
\* 420-482: the closed outline path (435-466) and the unit id (468-480)
DrawnFeatures == {"outline", "identifier"}

\* int() of a float: truncation towards zero
IntOf(x) == IF x.n >= 0 THEN x.n \div x.d ELSE -((-x.n) \div x.d)

\* line 371
rotation_angle(angle_deg) == RSub(Num(90), RDiv(angle_deg, Num(2)))

\* the point (radius * math.cos(angle), radius * math.sin(angle))
PointAt(radius, angle) == <<RMul(radius, Cos(angle)), RMul(radius, Sin(angle))>>

\* lines 383-387: the two points appended for one check_angle
CheckPoints(geometry, check_angle) ==
    IF RLt(Num(check_angle), geometry.angle_degrees)
    THEN << PointAt(geometry.inner_radius, Radians(Num(check_angle))),
            PointAt(geometry.outer_radius, Radians(Num(check_angle))) >>
    ELSE << >>

\* lines 375-387
points_original(geometry) ==
    LET angle_rad == Radians(geometry.angle_degrees)
    IN  << <<geometry.inner_radius, Zero>>,
           <<geometry.outer_radius, Zero>>,
           PointAt(geometry.inner_radius, angle_rad),
           PointAt(geometry.outer_radius, angle_rad) >>
        \o CheckPoints(geometry, 90)
        \o CheckPoints(geometry, 180)
        \o CheckPoints(geometry, 270)

\* lines 393-394: one point turned about the origin, cos_rot and sin_rot
\* being math.cos(rot_rad) and math.sin(rot_rad)
Rotated(p, cos_rot, sin_rot) ==
    << RSub(RMul(p[1], cos_rot), RMul(p[2], sin_rot)),
       RAdd(RMul(p[1], sin_rot), RMul(p[2], cos_rot)) >>

\* lines 391-395: the loop over points_original
RotateAll(original, cos_rot, sin_rot) ==
    [k \in 1..Len(original) |-> Rotated(original[k], cos_rot, sin_rot)]

\* lines 390-395
points_rotated(geometry) ==
    RotateAll(points_original(geometry),
              Cos(Radians(rotation_angle(geometry.angle_degrees))),
              Sin(Radians(rotation_angle(geometry.angle_degrees))))

\* min() and max() of a non-empty set of floats
MinOf(S) == CHOOSE m \in S : \A v \in S : RLe(m, v)

MaxOf(S) == CHOOSE m \in S : \A v \in S : RLe(v, m)

\* lines 398-402
Bounds(pts) ==
    [min_x |-> MinOf({pts[k][1] : k \in 1..Len(pts)}),
     max_x |-> MaxOf({pts[k][1] : k \in 1..Len(pts)}),
     min_y |-> MinOf({pts[k][2] : k \in 1..Len(pts)}),
     max_y |-> MaxOf({pts[k][2] : k \in 1..Len(pts)})]

\* lines 375-402: the bounds the function takes for the turned segment
BoundingBox(geometry) == Bounds(points_rotated(geometry))

\* lines 408-410
Scale(size, segment_width, segment_height) ==
    LET scale_x == IF RLt(Zero, segment_width)
                   THEN RDiv(RMul(size, Rat(85, 100)), segment_width)
                   ELSE Num(1)
        scale_y == IF RLt(Zero, segment_height)
                   THEN RDiv(RMul(size, Rat(85, 100)), segment_height)
                   ELSE Num(1)
    IN  RMin(scale_x, scale_y)

\* mutant of num_segments: one step more than the code takes
num_segments_plus_one(angle_deg) ==
    LET n == IntOf(RDiv(angle_deg, Num(5))) + 1
    IN  IF n > 20 THEN n ELSE 20

\* line 444
num_segments(angle_deg) ==
    LET n == IntOf(RDiv(angle_deg, Num(5)))
    IN  IF n > 20 THEN n ELSE 20

\* lines 445-450 and 458-463: the points of one arc in the order the loop
\* visits them, each as the radius and the current_angle (in radians) its
\* coordinates are computed from; outer_arc runs i = 0..N, inner_arc N..0
ArcPoints(radius, angle_rad, n, backwards) ==
    [k \in 1..(n + 1) |->
        LET i == IF backwards THEN n + 1 - k ELSE k - 1
        IN  [radius |-> radius,
             current_angle |-> RMul(angle_rad, Rat(i, n))]]

\* lines 417-482: what is put on the canvas once the scale is known
DrawAtScale(unit, x_center, y_center, size, bbox, scale, n) ==
    [unit |-> unit, x_center |-> x_center, y_center |-> y_center,
     max_size |-> size, features |-> DrawnFeatures,
     rotation_angle |-> rotation_angle(unit.geometry.angle_degrees),
     bbox |-> bbox,
     segment_width |-> RSub(bbox.max_x, bbox.min_x),
     segment_height |-> RSub(bbox.max_y, bbox.min_y),
     scale |-> scale,
     bbox_center_x |-> RDiv(RAdd(bbox.min_x, bbox.max_x), Num(2)),
     bbox_center_y |-> RDiv(RAdd(bbox.min_y, bbox.max_y), Num(2)),
     num_segments |-> n,
     outer_arc |-> ArcPoints(RMul(unit.geometry.outer_radius, scale),
                             Radians(unit.geometry.angle_degrees), n, FALSE),
     inner_arc |-> ArcPoints(RMul(unit.geometry.inner_radius, scale),
                             Radians(unit.geometry.angle_degrees), n, TRUE)]

\* lines 404-482: what follows the bounding box
DrawInBox(unit, x_center, y_center, size, bbox) ==
    DrawAtScale(unit, x_center, y_center, size, bbox,
                Scale(size, RSub(bbox.max_x, bbox.min_x),
                      RSub(bbox.max_y, bbox.min_y)),
                num_segments(unit.geometry.angle_degrees))

\* one call of _draw_unit_with_dimensions(c, unit, x_center, y_center, max_size)
DrawUnit(unit, x_center, y_center, size) ==
    DrawInBox(unit, x_center, y_center, size, BoundingBox(unit.geometry))

(***************************************************************************)
(* create_dxf_segment, lines 110-139: the entities added to the modelspace.*)
(***************************************************************************)
DxfEntities(geometry) ==
    LET inner_radius == geometry.inner_radius
        outer_radius == geometry.outer_radius
        angle_rad == geometry.angle_rad
        end_angle == Degrees(angle_rad)
        p1 == <<inner_radius, Zero>>
        p2 == <<outer_radius, Zero>>
        p3 == <<RMul(outer_radius, Cos(angle_rad)),
                RMul(outer_radius, Sin(angle_rad))>>
        p4 == <<RMul(inner_radius, Cos(angle_rad)),
                RMul(inner_radius, Sin(angle_rad))>>
    IN  << [type |-> "ARC", radius |-> inner_radius,
            start_angle |-> Zero, end_angle |-> end_angle],
           [type |-> "ARC", radius |-> outer_radius,
            start_angle |-> Zero, end_angle |-> end_angle],
           [type |-> "LINE", from |-> p1, to |-> p2],
           [type |-> "LINE", from |-> p3, to |-> p4] >>

(***************************************************************************)
(* State.                                                                  *)
(***************************************************************************)
VARIABLES
    args,         \* the six optional arguments of one solver call
    solver_pc,    \* "idle" | "call" | "returned" | "resolved"
    result,       \* what calculate_segment_geometry(args) returned or raised
    chord_result, \* the second call, with the first call's outer chord
    call,         \* the exporter called: "none" | "pdf" | "dxf"
    units_data,   \* the units passed to the exporter
    export_pc,    \* where the export call is
    idx,          \* the index of the unit the drawing loop is at
    drawn,        \* the calls of _draw_unit_with_dimensions so far, each
                  \* with the (row, col) the loop had computed for it
    entities,     \* the entities in the DXF modelspace
    files,        \* the temporary files that exist
    returned,     \* "nothing" | "None" | "bytes" | "raised"
    units,        \* st.session_state.units, the working list of main()
    event,        \* what started the last run of main()
    downloads     \* what the last run of main() gave the exporters

solverVars == <<args, solver_pc, result, chord_result>>

exportVars == <<call, units_data, export_pc, idx, drawn, entities,
                files, returned>>

appVars == <<units, event, downloads>>

vars == <<args, solver_pc, result, chord_result, call, units_data,
          export_pc, idx, drawn, entities, files, returned, units, event,
          downloads>>

Lengths == {None} \cup {Some(Num(l)) : l \in 0..MaxLen}

Angles == {None} \cup {Some(Num(30 * k)) : k \in 0..MaxAngleIdx}

NoArgs == [inner_radius |-> None, outer_radius |-> None, depth |-> None,
           chord_length |-> None, arc_length |-> None,
           angle_degrees |-> None]

NoResult == [outcome |-> "none"]

SolverIdle ==
    /\ args = NoArgs
    /\ solver_pc = "idle"
    /\ result = NoResult
    /\ chord_result = NoResult

ExportIdle ==
    /\ call = "none"
    /\ units_data = <<>>
    /\ export_pc = "idle"
    /\ idx = 0
    /\ drawn = <<>>
    /\ entities = <<>>
    /\ files = {}
    /\ returned = "nothing"

\* no run of main() yet
NoEvent == [kind |-> "none", unit_id |-> "", args |-> NoArgs, idx |-> 0]

\* the download section was not reached, or the list was empty (line 607)
NoDownloads == [dxf |-> <<>>, pdf |-> None]

AppIdle ==
    /\ units = <<>>
    /\ event = NoEvent
    /\ downloads = NoDownloads

(***************************************************************************)
(* The solver called on its own.                                           *)
(***************************************************************************)
InitSolver ==
    /\ args \in [inner_radius : Lengths, outer_radius : Lengths,
                 depth : Lengths, chord_length : Lengths,
                 arc_length : Lengths, angle_degrees : Angles]
    /\ solver_pc = "call"
    /\ result = NoResult
    /\ chord_result = NoResult
    /\ ExportIdle
    /\ AppIdle

\* one call of calculate_segment_geometry
Solve ==
    /\ solver_pc = "call"
    /\ result' = calculate_segment_geometry(
                     args.inner_radius, args.outer_radius, args.depth,
                     args.chord_length, args.arc_length, args.angle_degrees)
    /\ solver_pc' = "returned"
    /\ UNCHANGED <<args, chord_result>>
    /\ UNCHANGED exportVars
    /\ UNCHANGED appVars

\* after a call that gave the angle alone: a second call with the same radii,
\* no angle, and the outer chord the first call returned as chord_length
SolveFromChord ==
    /\ solver_pc = "returned"
    /\ result.outcome = "ok"
    /\ args.angle_degrees # None
    /\ args.chord_length = None
    /\ args.arc_length = None
    /\ chord_result' = calculate_segment_geometry(
                           args.inner_radius, args.outer_radius, args.depth,
                           Some(result.outer_chord_length), None, None)
    /\ solver_pc' = "resolved"
    /\ UNCHANGED <<args, result>>
    /\ UNCHANGED exportVars
    /\ UNCHANGED appVars

NextSolver == Solve \/ SolveFromChord

SpecSolver == InitSolver /\ [][NextSolver]_vars

(***************************************************************************)
(* The exporters called on a list of units.                                *)
(***************************************************************************)
\* two units as main() builds them (lines 570-573)
UnitA ==
    [id |-> "A",
     geometry |-> calculate_segment_geometry(
                      Some(Num(1)), Some(Num(2)), None,
                      None, None, Some(Num(90)))]

UnitB ==
    [id |-> "B",
     geometry |-> calculate_segment_geometry(
                      Some(Num(0)), None, Some(Num(1)),
                      None, None, Some(Num(270)))]

\* the lists of n units that are all alike except at most one: each position
\* of the list is told apart from every other position in one of them
UnitLists(n) ==
    { [k \in 1..n |-> IF k = m THEN UnitB ELSE UnitA] : m \in 0..n }

PdfTemp == "tmp.pdf"

DxfTemp == "tmp.dxf"

InitExport ==
    /\ SolverIdle
    /\ AppIdle
    /\ call \in {"pdf", "dxf"}
    /\ \E n \in 0..MaxUnits : units_data \in UnitLists(n)
    \* create_dxf_segment is given the geometry of one unit
    /\ call = "dxf" => Len(units_data) = 1
    /\ export_pc = "start"
    /\ idx = 0
    /\ drawn = <<>>
    /\ entities = <<>>
    /\ files = {}
    /\ returned = "nothing"

\* lines 157-165: the temporary file, the canvas and the title block
PdfOpen ==
    /\ call = "pdf"
    /\ export_pc = "start"
    /\ files' = files \cup {PdfTemp}
    /\ export_pc' = "layout"
    /\ UNCHANGED <<call, units_data, idx, drawn, entities, returned>>
    /\ UNCHANGED solverVars
    /\ UNCHANGED appVars

\* lines 177-179: nothing to render
PdfNoUnits ==
    /\ call = "pdf"
    /\ export_pc = "layout"
    /\ Len(units_data) = 0
    /\ returned' = "None"
    /\ export_pc' = "done"
    /\ UNCHANGED <<call, units_data, idx, drawn, entities, files>>
    /\ UNCHANGED solverVars
    /\ UNCHANGED appVars

\* lines 182-293: one turn of the branch's loop over enumerate(units_data)
\* (the single call of the one-unit branch)
PdfDrawUnit ==
    /\ call = "pdf"
    /\ export_pc = "layout"
    /\ idx < Len(units_data)
    /\ drawn' = Append(drawn,
                       DrawUnit(units_data[idx + 1],
                                x_offset(Len(units_data), idx),
                                y_offset(Len(units_data), idx),
                                max_size(Len(units_data)))
                       @@ [cell |-> GridCell(Len(units_data), idx)])
    /\ idx' = idx + 1
    /\ UNCHANGED <<call, units_data, export_pc, entities, files,
                   returned>>
    /\ UNCHANGED solverVars
    /\ UNCHANGED appVars

\* lines 295-296: c.save() writes the file, temp_pdf.close()
PdfSave ==
    /\ call = "pdf"
    /\ export_pc = "layout"
    /\ Len(units_data) > 0
    /\ idx = Len(units_data)
    /\ export_pc' = "read"
    /\ UNCHANGED <<call, units_data, idx, drawn, entities, files,
                   returned>>
    /\ UNCHANGED solverVars
    /\ UNCHANGED appVars

\* line 295: c.save() raises (the disk is full, the file is gone)
PdfSaveRaises ==
    /\ call = "pdf"
    /\ export_pc = "layout"
    /\ Len(units_data) > 0
    /\ idx = Len(units_data)
    /\ returned' = "raised"
    /\ export_pc' = "done"
    /\ UNCHANGED <<call, units_data, idx, drawn, entities, files>>
    /\ UNCHANGED solverVars
    /\ UNCHANGED appVars

\* lines 299-300: the content is read back
PdfRead ==
    /\ call = "pdf"
    /\ export_pc = "read"
    /\ export_pc' = "unlink"
    /\ UNCHANGED <<call, units_data, idx, drawn, entities, files,
                   returned>>
    /\ UNCHANGED solverVars
    /\ UNCHANGED appVars

\* lines 299-300: open() or read() raises
PdfReadRaises ==
    /\ call = "pdf"
    /\ export_pc = "read"
    /\ returned' = "raised"
    /\ export_pc' = "done"
    /\ UNCHANGED <<call, units_data, idx, drawn, entities, files>>
    /\ UNCHANGED solverVars
    /\ UNCHANGED appVars

\* lines 303-305: os.unlink and the return of the content
PdfUnlink ==
    /\ call = "pdf"
    /\ export_pc = "unlink"
    /\ files' = files \ {PdfTemp}
    /\ returned' = "bytes"
    /\ export_pc' = "done"
    /\ UNCHANGED <<call, units_data, idx, drawn, entities>>
    /\ UNCHANGED solverVars
    /\ UNCHANGED appVars

\* lines 110-139: the document with its two arcs and two lines
DxfBuild ==
    /\ call = "dxf"
    /\ export_pc = "start"
    /\ entities' = DxfEntities(units_data[1].geometry)
    /\ export_pc' = "tempfile"
    /\ UNCHANGED <<call, units_data, idx, drawn, files, returned>>
    /\ UNCHANGED solverVars
    /\ UNCHANGED appVars

\* lines 142-144: the temporary file is created and the document saved in it
DxfSave ==
    /\ call = "dxf"
    /\ export_pc = "tempfile"
    /\ files' = files \cup {DxfTemp}
    /\ export_pc' = "read"
    /\ UNCHANGED <<call, units_data, idx, drawn, entities, returned>>
    /\ UNCHANGED solverVars
    /\ UNCHANGED appVars

\* line 143: doc.saveas raises inside the with block, which closes the file
\* (created with delete=False) and leaves it
DxfSaveRaises ==
    /\ call = "dxf"
    /\ export_pc = "tempfile"
    /\ files' = files \cup {DxfTemp}
    /\ returned' = "raised"
    /\ export_pc' = "done"
    /\ UNCHANGED <<call, units_data, idx, drawn, entities>>
    /\ UNCHANGED solverVars
    /\ UNCHANGED appVars

\* lines 146-147: the content is read back
DxfRead ==
    /\ call = "dxf"
    /\ export_pc = "read"
    /\ export_pc' = "unlink"
    /\ UNCHANGED <<call, units_data, idx, drawn, entities, files,
                   returned>>
    /\ UNCHANGED solverVars
    /\ UNCHANGED appVars

\* lines 146-147: open() or read() raises
DxfReadRaises ==
    /\ call = "dxf"
    /\ export_pc = "read"
    /\ returned' = "raised"
    /\ export_pc' = "done"
    /\ UNCHANGED <<call, units_data, idx, drawn, entities, files>>
    /\ UNCHANGED solverVars
    /\ UNCHANGED appVars

\* lines 149-151: os.unlink and the return of the content
DxfUnlink ==
    /\ call = "dxf"
    /\ export_pc = "unlink"
    /\ files' = files \ {DxfTemp}
    /\ returned' = "bytes"
    /\ export_pc' = "done"
    /\ UNCHANGED <<call, units_data, idx, drawn, entities>>
    /\ UNCHANGED solverVars
    /\ UNCHANGED appVars

NextExport ==
    \/ PdfOpen
    \/ PdfNoUnits
    \/ PdfDrawUnit
    \/ PdfSave
    \/ PdfSaveRaises
    \/ PdfRead
    \/ PdfReadRaises
    \/ PdfUnlink
    \/ DxfBuild
    \/ DxfSave
    \/ DxfSaveRaises
    \/ DxfRead
    \/ DxfReadRaises
    \/ DxfUnlink

SpecExport == InitExport /\ [][NextExport]_vars

(***************************************************************************)
(* _draw_unit_with_dimensions called on one unit.                          *)
(***************************************************************************)
\* the angles of the units drawn: whole degrees at which the sines and
\* cosines of the angle and of the rotation are fractions small enough for
\* the page coordinates (in points) to stay within the integers
DrawAngles ==
    {Num(a) : a \in {0, 90, 180, 225, 240, 270, 300, 306, 315, 320, 324,
                     330, 360}}

\* the units main() builds from two radii and an angle (lines 560-573)
DrawUnits ==
    LET built == { [id |-> "A",
                    geometry |-> calculate_segment_geometry(
                                     Some(Num(i)), Some(Num(o)), None,
                                     None, None, Some(a))] :
                   i \in 0..MaxLen, o \in 0..MaxLen, a \in DrawAngles }
    IN  {u \in built : u.geometry.outcome = "ok"}

InitDraw ==
    /\ SolverIdle
    /\ AppIdle
    /\ call = "draw"
    /\ units_data \in {<<u>> : u \in DrawUnits}
    /\ export_pc = "start"
    /\ idx = 0
    /\ drawn = <<>>
    /\ entities = <<>>
    /\ files = {}
    /\ returned = "nothing"

\* lines 359-482: the call create_pdf_drawing makes for one unit of a page of
\* num_units units, at the place and with the max_size of its first cell
DrawCall ==
    /\ call = "draw"
    /\ export_pc = "start"
    /\ \E num_units \in 1..MaxUnits :
           drawn' = <<DrawUnit(units_data[1],
                               x_offset(num_units, 0),
                               y_offset(num_units, 0),
                               max_size(num_units))>>
    /\ export_pc' = "done"
    /\ UNCHANGED <<call, units_data, idx, entities, files, returned>>
    /\ UNCHANGED solverVars
    /\ UNCHANGED appVars

NextDraw == DrawCall

SpecDraw == InitDraw /\ [][NextDraw]_vars

(***************************************************************************)
(* main(), lines 486-666: the working list across the runs of the script.  *)
(* Streamlit runs main() from top to bottom once for each event of the     *)
(* page; st.rerun() ends the run and starts another.                       *)
(***************************************************************************)
\* the options of the radio, lines 512-515, with the words the form tests
\* them for ("Depth" in input_method, and so on)
InputMethods ==
    {"Radii + Chord Length", "Radii + Arc Length", "Radii + Angle",
     "Radius + Depth + Chord"}

Mentions(input_method, word) ==
    CASE input_method = "Radii + Chord Length" -> word = "Chord"
      [] input_method = "Radii + Arc Length" -> word = "Arc"
      [] input_method = "Radii + Angle" -> word = "Angle"
      [] input_method = "Radius + Depth + Chord" ->
            word \in {"Depth", "Chord"}

\* what is typed in the fields of the form (numbers are >= 0, the angle is
\* at most 360)
FormIds == {"", "A"}

FormInnerRadii == {Num(0), Num(1)}

FormOuterRadii == {Num(1)}

FormDepths == {Num(0), Num(1)}

FormChords == {Num(1), Num(3)}

FormArcs == {Num(1)}

FormAngles == {Num(0), Num(90)}

\* lines 524-545 and 560-567: the arguments the form gives the solver
FormArgs(input_method, inner_radius, outer_radius, depth, chord, arc, angle) ==
    [inner_radius |-> Some(inner_radius),
     outer_radius |-> IF Mentions(input_method, "Depth")
                      THEN None ELSE Some(outer_radius),
     depth |-> IF Mentions(input_method, "Depth")
               THEN Some(depth) ELSE None,
     chord_length |-> IF Mentions(input_method, "Chord")
                      THEN Some(chord) ELSE None,
     arc_length |-> IF Mentions(input_method, "Arc")
                    THEN Some(arc) ELSE None,
     angle_degrees |-> IF Mentions(input_method, "Angle")
                       THEN Some(angle) ELSE None]

\* the call of lines 560-567
SolveForm(a) ==
    calculate_segment_geometry(a.inner_radius, a.outer_radius, a.depth,
                               a.chord_length, a.arc_length, a.angle_degrees)

\* what can be submitted: a unit id and the arguments made of the fields
Forms ==
    { [unit_id |-> unit_id,
       args |-> FormArgs(input_method, inner_radius, outer_radius, depth,
                         chord, arc, angle)] :
      unit_id \in FormIds, input_method \in InputMethods,
      inner_radius \in FormInnerRadii, outer_radius \in FormOuterRadii,
      depth \in FormDepths, chord \in FormChords, arc \in FormArcs,
      angle \in FormAngles }

\* what the call of lines 560-567 returns or raises for each form
Solved == [a \in {f.args : f \in Forms} |-> SolveForm(a)]

\* mutant of Submitted: the unit id is not looked at
Submitted_any_id(list, unit_id, solved) ==
    IF solved.outcome = "ok"
    THEN Append(list, [id |-> unit_id, geometry |-> solved])
    ELSE list

\* lines 554-578: the working list after the submission is handled, solved
\* being what the solver returns or raises for the form
Submitted(list, unit_id, solved) ==
    IF unit_id = "" THEN list
    ELSE IF solved.outcome = "ok"
    THEN Append(list, [id |-> unit_id, geometry |-> solved])
    ELSE list

\* the submission ends the run with an exception main() does not catch
\* (line 577 catches ValueError alone)
Uncaught(unit_id, solved) ==
    unit_id # "" /\ solved.outcome \notin {"ok", "ValueError"}

\* lines 607-642: the download section of a run that reaches it
Downloads(list) ==
    IF list = <<>> THEN NoDownloads
    ELSE [dxf |-> [k \in 1..Len(list) |->
                      [name |-> list[k].id, geometry |-> list[k].geometry]],
          pdf |-> Some(list)]

\* list.pop(idx), idx 0-based
Popped(list, i) ==
    [k \in 1..(Len(list) - 1) |-> IF k <= i THEN list[k] ELSE list[k + 1]]

InitApp ==
    /\ SolverIdle
    /\ ExportIdle
    /\ units = <<>>
    /\ event = [kind |-> "load", unit_id |-> "", args |-> NoArgs, idx |-> 0]
    /\ downloads = NoDownloads

\* the run started by "Add Unit": lines 554-578, then the download section
Submit ==
    /\ \E f \in Forms :
          /\ Len(Submitted(units, f.unit_id, Solved[f.args]))
                <= MaxSessionUnits
          /\ event' = [kind |-> "submit", unit_id |-> f.unit_id,
                       args |-> f.args, idx |-> 0]
          /\ units' = Submitted(units, f.unit_id, Solved[f.args])
          /\ downloads' =
                IF Uncaught(f.unit_id, Solved[f.args]) THEN NoDownloads
                ELSE Downloads(Submitted(units, f.unit_id, Solved[f.args]))
    /\ UNCHANGED solverVars
    /\ UNCHANGED exportVars

\* the run started by a "Remove" button, lines 594-596, and the run that
\* st.rerun() starts
Remove ==
    /\ \E i \in 0..(Len(units) - 1) :
          /\ event' = [kind |-> "remove", unit_id |-> "", args |-> NoArgs,
                       idx |-> i]
          /\ units' = Popped(units, i)
          /\ downloads' = Downloads(Popped(units, i))
    /\ UNCHANGED solverVars
    /\ UNCHANGED exportVars

\* the run started by "Clear All Units", lines 601-604, and the run that
\* st.rerun() starts
ClearAll ==
    /\ units # <<>>
    /\ event' = [kind |-> "clear", unit_id |-> "", args |-> NoArgs,
                 idx |-> 0]
    /\ units' = <<>>
    /\ downloads' = Downloads(<<>>)
    /\ UNCHANGED solverVars
    /\ UNCHANGED exportVars

NextApp == Submit \/ Remove \/ ClearAll

SpecApp == InitApp /\ [][NextApp]_vars

(***************************************************************************)
(* Claims about calculate_segment_geometry (SpecSolver).                   *)
(***************************************************************************)
Returned == solver_pc \in {"returned", "resolved"}

Accepted == Returned /\ result.outcome = "ok"

Given(o) == o # None

\* C1: every accepted call (all supplied values non-negative) returns
\* inner_radius < outer_radius and angle_degrees > 0.
C1_AcceptedRadiiOrderedAnglePositive ==
    Accepted =>
        /\ RLt(result.inner_radius, result.outer_radius)
        /\ RLt(Zero, result.angle_degrees)

\* the outer radius the claims call "resolved": inner + depth when depth and
\* the inner radius are given, else the outer radius given
C2_ResolvedOuter ==
    IF Given(args.depth) /\ Given(args.inner_radius)
    THEN RAdd(Val(args.inner_radius), Val(args.depth))
    ELSE Val(args.outer_radius)

C2_RadiusMissing ==
    \/ ~Given(args.inner_radius) /\ ~Given(args.outer_radius)
    \/ /\ ~Given(args.depth)
       /\ ~Given(args.inner_radius) \/ ~Given(args.outer_radius)

C2_RadiiNotOrdered ==
    /\ ~C2_RadiusMissing
    /\ IF Given(args.depth) THEN RLe(Val(args.depth), Zero)
       ELSE RLe(Val(args.outer_radius), Val(args.inner_radius))

C2_AngleMissing ==
    /\ ~Given(args.angle_degrees)
    /\ ~Given(args.chord_length)
    /\ ~Given(args.arc_length)

C2_ChordTooLong ==
    /\ ~C2_RadiusMissing
    /\ ~Given(args.angle_degrees)
    /\ Given(args.chord_length)
    /\ RLt(RMul(Num(2), C2_ResolvedOuter), Val(args.chord_length))

C2_ScenarioC ==
    /\ args.inner_radius = Some(Num(0))
    /\ args.outer_radius = Some(Num(1))
    /\ args.depth = None
    /\ args.chord_length = Some(Num(3))
    /\ args.angle_degrees = None

\* C2: for non-negative inputs the call raises ValueError if and only if radius
\* information is missing, or the resolved inner_radius >= outer_radius, or no
\* angle-defining input is given, or the angle comes from chord_length and
\* chord_length > 2 * outer_radius; inner_radius=0, outer_radius=1,
\* chord_length=3 is rejected.
C2_ValueErrorIff ==
    Returned =>
        /\ (result.outcome = "ValueError") <=>
               \/ C2_RadiusMissing
               \/ C2_RadiiNotOrdered
               \/ C2_AngleMissing
               \/ C2_ChordTooLong
        /\ C2_ScenarioC => result.outcome = "ValueError"

\* a chord exactly equal to the outer diameter is accepted
C2_DiameterChordAccepted ==
    /\ Accepted
    /\ ~Given(args.angle_degrees)
    /\ Given(args.chord_length)
    /\ Val(args.chord_length) = RMul(Num(2), result.outer_radius)

C3_ExactlyOneRadius ==
    Given(args.inner_radius) # Given(args.outer_radius)

\* C3: with depth and exactly one radius given the other radius is derived
\* (outer = inner + depth, or inner = outer - depth) and the returned depth is
\* the depth given; in every other accepted case the returned radii are exactly
\* the two radii given, also when a depth was supplied with them.
C3_RadiiResolution ==
    Accepted =>
        IF Given(args.depth) /\ C3_ExactlyOneRadius
        THEN /\ result.depth = Val(args.depth)
             /\ IF Given(args.inner_radius)
                THEN /\ result.inner_radius = Val(args.inner_radius)
                     /\ result.outer_radius =
                            RAdd(Val(args.inner_radius), Val(args.depth))
                ELSE /\ result.outer_radius = Val(args.outer_radius)
                     /\ result.inner_radius =
                            RSub(Val(args.outer_radius), Val(args.depth))
        ELSE /\ Given(args.inner_radius)
             /\ Given(args.outer_radius)
             /\ result.inner_radius = Val(args.inner_radius)
             /\ result.outer_radius = Val(args.outer_radius)

RoundTripDone == solver_pc = "resolved"

C9_RecoversAngle ==
    /\ chord_result.outcome = "ok"
    /\ chord_result.angle_degrees = Val(args.angle_degrees)

\* C9 as claimed: for every accepted pair of radii and every angle with
\* 0 < angle <= 360 degrees, solving from the returned outer chord recovers
\* the angle.
C9_RoundTripFullTurn ==
    (/\ RoundTripDone
     /\ RLt(Zero, Val(args.angle_degrees))
     /\ RLe(Val(args.angle_degrees), Num(360)))
        => C9_RecoversAngle

\* C9 as amended: for every accepted pair of radii with outer_radius > 0 and
\* every angle with 0 < angle <= 180 degrees, solving from the returned outer
\* chord recovers the angle.
C9_RoundTripHalfTurn ==
    (/\ RoundTripDone
     /\ RLt(Zero, result.outer_radius)
     /\ RLt(Zero, Val(args.angle_degrees))
     /\ RLe(Val(args.angle_degrees), Num(180)))
        => C9_RecoversAngle

\* a round trip through a chord shorter than the diameter
C9_RoundTripWitness ==
    /\ RoundTripDone
    /\ RLt(Zero, result.outer_radius)
    /\ Val(args.angle_degrees) = Num(150)
    /\ C9_RecoversAngle

\* an angle above 180 degrees comes back as 360 degrees minus itself: the
\* chord of 210 degrees is the chord of 150 degrees
C9_ReflexAngleFolded ==
    /\ RoundTripDone
    /\ RLt(Zero, result.outer_radius)
    /\ Val(args.angle_degrees) = Num(210)
    /\ chord_result.outcome = "ok"
    /\ chord_result.angle_degrees = Num(150)

RatioIs(num, den, q) == den # Zero /\ RDiv(num, den) = q

\* C10 as claimed: for every returned geometry, also with inner_radius = 0,
\* outer_arc_length / outer_radius and inner_arc_length / inner_radius are
\* defined and equal angle_rad.
C10_ArcRatiosDefined ==
    Accepted =>
        /\ RatioIs(result.outer_arc_length, result.outer_radius,
                   result.angle_rad)
        /\ RatioIs(result.inner_arc_length, result.inner_radius,
                   result.angle_rad)

\* C10 as amended: for every returned geometry, each of the two ratios whose
\* radius is not zero equals angle_rad; an arc of radius zero has length zero
\* (and no ratio).
C10_ArcRatiosWhereDefined ==
    Accepted =>
        /\ result.outer_radius # Zero =>
               RatioIs(result.outer_arc_length, result.outer_radius,
                       result.angle_rad)
        /\ result.inner_radius # Zero =>
               RatioIs(result.inner_arc_length, result.inner_radius,
                       result.angle_rad)
        /\ result.outer_radius = Zero => result.outer_arc_length = Zero
        /\ result.inner_radius = Zero => result.inner_arc_length = Zero

\* an accepted geometry with a positive inner radius and a positive angle
C10_RatioWitness ==
    /\ Accepted
    /\ RLt(Zero, result.inner_radius)
    /\ RLt(Zero, result.angle_rad)
    /\ RatioIs(result.inner_arc_length, result.inner_radius, result.angle_rad)

(***************************************************************************)
(* Claims about the exporters (SpecExport).                                *)
(***************************************************************************)
\* the eight measured features of a unit
MeasuredFeatures ==
    {"outer_radius", "inner_radius", "depth", "outer_chord", "inner_chord",
     "outer_arc_length", "inner_arc_length", "included_angle"}

\* C4: for every unit drawn, the renderer emits the outline, the identifier
\* text and an annotation for each of the eight measured features.
C4_EveryUnitFullyDimensioned ==
    \A k \in 1..Len(drawn) :
        {"outline", "identifier"} \cup MeasuredFeatures
            \subseteq drawn[k].features

\* the drawing surface: [SurfaceLeft, SurfaceRight] x [SurfaceBottom, SurfaceTop]
SurfaceLeft == margin

SurfaceRight == RAdd(margin, drawing_width)

SurfaceTop == RSub(page_height, margin)

SurfaceBottom == RSub(SurfaceTop, drawing_height)

\* the grid the claims give for n >= 4 units: 2 x 2 for 4, 3 columns x 2 rows
\* for 5-6, 3 x 3 for 7-9, 4 columns and ceil(n / 4) rows above 9
ClaimedCols(n) == IF n = 4 THEN 2 ELSE IF n <= 9 THEN 3 ELSE 4

ClaimedRows(n) ==
    IF n <= 6 THEN 2 ELSE IF n <= 9 THEN 3 ELSE (n + 3) \div 4

\* the point (x, y) lies strictly inside cell (row, col) of the grid of
\* rows x cols equal cells that partitions the drawing surface, row 0 on top
InsideGridCell(x, y, row, col, rows, cols) ==
    LET cw == RDiv(drawing_width, Num(cols))
        ch == RDiv(drawing_height, Num(rows))
    IN  /\ RLt(RAdd(SurfaceLeft, RMul(Num(col), cw)), x)
        /\ RLt(x, RAdd(SurfaceLeft, RMul(Num(col + 1), cw)))
        /\ RLt(y, RSub(SurfaceTop, RMul(Num(row), ch)))
        /\ RLt(RSub(SurfaceTop, RMul(Num(row + 1), ch)), y)

\* the loop of create_pdf_drawing has drawn every unit of the list
LoadedLayout ==
    /\ call = "pdf"
    /\ export_pc = "layout"
    /\ Len(units_data) > 0
    /\ idx = Len(units_data)

\* C5: in one create_pdf_drawing call over n >= 1 units the k-th draw is for
\* the k-th unit of the list, a call that returns the bytes has made exactly n
\* draws, and for n >= 4 unit idx is placed in grid cell (idx // cols,
\* idx % cols): a later unit is never above an earlier one, nor to its left in
\* the same row.
C5_DrawsInSubmissionOrder ==
    LET n == Len(units_data)
    IN  /\ Len(drawn) <= n
        /\ \A k \in 1..Len(drawn) : drawn[k].unit = units_data[k]
        /\ (call = "pdf" /\ returned = "bytes") => Len(drawn) = n
        /\ (LoadedLayout /\ n >= 4) =>
               \A k \in 1..Len(drawn) :
                   InsideGridCell(drawn[k].x_center, drawn[k].y_center,
                                  (k - 1) \div ClaimedCols(n),
                                  (k - 1) % ClaimedCols(n),
                                  ClaimedRows(n), ClaimedCols(n))
        /\ (LoadedLayout /\ n >= 4) =>
               \A i, j \in 1..Len(drawn) :
                   i < j =>
                       /\ RLe(drawn[j].y_center, drawn[i].y_center)
                       /\ drawn[j].y_center = drawn[i].y_center =>
                              RLt(drawn[i].x_center, drawn[j].x_center)

\* a returned drawing of a list of ten units that are not all the same
C5_TenUnitsDrawn ==
    /\ call = "pdf"
    /\ returned = "bytes"
    /\ Len(drawn) = 10
    /\ \E i, j \in 1..10 : units_data[i] # units_data[j]

Half(x) == RDiv(x, Num(2))

RAbs(x) == IF x.n < 0 THEN RNeg(x) ELSE x

\* the placement cell of a draw: the square of side max_size centred on
\* (x_center, y_center), lies inside the drawing surface
CellInsideSurface(d) ==
    /\ RLe(SurfaceLeft, RSub(d.x_center, Half(d.max_size)))
    /\ RLe(RAdd(d.x_center, Half(d.max_size)), SurfaceRight)
    /\ RLe(SurfaceBottom, RSub(d.y_center, Half(d.max_size)))
    /\ RLe(RAdd(d.y_center, Half(d.max_size)), SurfaceTop)

\* two placement cells share no area
CellsDisjoint(d, e) ==
    LET reach == RAdd(Half(d.max_size), Half(e.max_size))
    IN  \/ RLe(reach, RAbs(RSub(d.x_center, e.x_center)))
        \/ RLe(reach, RAbs(RSub(d.y_center, e.y_center)))

\* C6: for every unit count n >= 1 and every drawing surface, the placement
\* cells (squares of side max_size centred on each unit's offsets) are pairwise
\* non-overlapping and each lies inside the drawing surface.
C6_CellsDisjointInsideSurface ==
    LoadedLayout =>
        /\ \A k \in 1..Len(drawn) : CellInsideSurface(drawn[k])
        /\ \A i, j \in 1..Len(drawn) :
               i < j => CellsDisjoint(drawn[i], drawn[j])

\* the three-unit layout drawn: the cells of the first and of the third unit
\* share an edge and no area
C6_ThreeCellsPlaced ==
    /\ LoadedLayout
    /\ Len(drawn) = 3
    /\ RLt(Zero, drawn[1].max_size)
    /\ RAdd(drawn[1].y_center, Half(drawn[1].max_size))
           = RSub(drawn[3].y_center, Half(drawn[3].max_size))

SurfaceMidX == RAdd(SurfaceLeft, Half(drawing_width))

SurfaceMidY == RAdd(SurfaceBottom, Half(drawing_height))

\* C7: with exactly 3 units the first two are centred in the upper half of the
\* drawing surface (toward the top of the page, where the grids put row 0),
\* one in the left half and one in the right half, and the third is
\* horizontally centred in the lower half.
C7_ThreeUnitsTwoAboveOneBelow ==
    (call = "pdf" /\ Len(units_data) = 3 /\ Len(drawn) = 3) =>
        /\ RLt(SurfaceMidY, drawn[1].y_center)
        /\ RLt(SurfaceMidY, drawn[2].y_center)
        /\ RLt(drawn[1].x_center, SurfaceMidX)
        /\ RLt(SurfaceMidX, drawn[2].x_center)
        /\ drawn[3].x_center = SurfaceMidX
        /\ RLt(drawn[3].y_center, SurfaceMidY)

\* C8: when an export call has ended, by returning the bytes, by returning
\* None for an empty list or by an exception, no temporary file it created
\* still exists.
C8_NoTempFileLeftBehind ==
    export_pc = "done" => files = {}

(***************************************************************************)
(* C11, C12: the outline and the bounding box of one drawn unit.           *)
(***************************************************************************)
\* the unit of the call has been drawn
Drawn == call = "draw" /\ export_pc = "done"

DrawnAngle == drawn[1].unit.geometry.angle_degrees

\* both arcs of the drawn outline have n + 1 points, the outer arc from
\* angle 0 to angle_rad, the inner arc back from angle_rad to 0, in steps of
\* angle_rad / n
SampledInSteps(n) ==
    LET angle_rad == Radians(DrawnAngle)
        step == RDiv(angle_rad, Num(n))
        outer == drawn[1].outer_arc
        inner == drawn[1].inner_arc
    IN  /\ Len(outer) = n + 1
        /\ Len(inner) = n + 1
        /\ outer[1].current_angle = Zero
        /\ outer[n + 1].current_angle = angle_rad
        /\ inner[1].current_angle = angle_rad
        /\ inner[n + 1].current_angle = Zero
        /\ \A k \in 1..n :
              /\ RSub(outer[k + 1].current_angle,
                      outer[k].current_angle) = step
              /\ RSub(inner[k].current_angle,
                      inner[k + 1].current_angle) = step

\* C11 as stated: for every angle_degrees > 0 each arc of the outline is
\* sampled in N = max(20, ceil(angle_degrees / 5)) uniform steps, the same
\* N for the outer and the inner arc, at N + 1 points including both ends.
C11_StepsCeiling ==
    (Drawn /\ RLt(Zero, DrawnAngle)) =>
        LET c == Ceil(RDiv(DrawnAngle, Num(5)))
            N == IF c > 20 THEN c ELSE 20
        IN  drawn[1].num_segments = N /\ SampledInSteps(N)

\* C11 amended: for every angle_degrees > 0 each arc of the outline is
\* sampled in N = max(20, floor(angle_degrees / 5)) uniform steps (N is 20
\* below 105 degrees, and otherwise the whole number with
\* 5 N <= angle_degrees < 5 N + 5), the same N for the outer and the inner
\* arc, at N + 1 points including both ends.
C11_StepsFloor ==
    (Drawn /\ RLt(Zero, DrawnAngle)) =>
        LET N == drawn[1].num_segments
        IN  /\ \/ N = 20 /\ RLt(DrawnAngle, Num(105))
               \/ /\ N > 20
                  /\ RLe(Num(5 * N), DrawnAngle)
                  /\ RLt(DrawnAngle, Num(5 * N + 5))
            /\ SampledInSteps(N)

\* an angle that is no multiple of 5 degrees has been drawn with more than
\* 20 steps: 306 degrees with 61 steps and 62 points on each arc
C11_OddAngleDrawn ==
    /\ Drawn
    /\ DrawnAngle = Num(306)
    /\ drawn[1].num_segments = 61
    /\ Len(drawn[1].outer_arc) = 62
    /\ Len(drawn[1].inner_arc) = 62

\* C12: for every angle in (0, 360] the bounding box the function computes
\* contains the points at which the turned outline reaches its extremes; in
\* particular the topmost point of the turned outer arc, the point of the
\* outer arc on the bisector, which the rotation by 90 - angle_degrees / 2
\* puts at 90 degrees, lies inside the box.
C12_BoxHoldsTopOfOuterArc ==
    (Drawn /\ RLt(Zero, DrawnAngle) /\ RLe(DrawnAngle, Num(360))) =>
        LET top == PointAt(drawn[1].unit.geometry.outer_radius,
                           Radians(Num(90)))
            bbox == drawn[1].bbox
        IN  /\ RLe(bbox.min_x, top[1])
            /\ RLe(top[1], bbox.max_x)
            /\ RLe(bbox.min_y, top[2])
            /\ RLe(top[2], bbox.max_y)

(***************************************************************************)
(* C13: the grid of create_pdf_drawing for four units and more.            *)
(***************************************************************************)
\* C13: for every unit count n >= 4 the grid has at least n cells and every
\* unit's (row, col) = (idx // cols, idx % cols) has row < rows and
\* col < cols; the grid is 2x2 for 4 units, 3 columns x 2 rows for 5-6,
\* 3x3 for 7-9 (the cells after the seventh stay blank for 7 units), and for
\* n > 9 columns = min(4, ceil(sqrt(1.3 n))), which is 4, with
\* rows = ceil(n / columns).
C13_GridHoldsEveryUnit ==
    (call = "pdf" /\ Len(units_data) >= 4) =>
        LET n == Len(units_data)
            cols == GridCols(n)
            rows == GridRows(n)
            root == CeilSqrt(Rat(13 * n, 10))
        IN  /\ cols * rows >= n
            /\ \A k \in 1..Len(drawn) :
                  LET cell == Val(drawn[k].cell)
                  IN  /\ cell.row = (k - 1) \div cols
                      /\ cell.col = (k - 1) % cols
                      /\ cell.row >= 0 /\ cell.row < rows
                      /\ cell.col >= 0 /\ cell.col < cols
            /\ n = 4 => cols = 2 /\ rows = 2
            /\ n \in 5..6 => cols = 3 /\ rows = 2
            /\ n \in 7..9 => cols = 3 /\ rows = 3
            /\ n = 7 => \A k \in 1..Len(drawn) :
                            Val(drawn[k].cell) \notin
                                {[row |-> 2, col |-> 1], [row |-> 2, col |-> 2]}
            /\ n > 9 =>
                  /\ cols = (IF root < 4 THEN root ELSE 4)
                  /\ cols = 4
                  /\ rows = Ceil(Rat(n, cols))

\* a page of ten units has been laid out on 4 columns and 3 rows, the tenth
\* unit in row 2, column 1
C13_TenUnitsOnThreeRows ==
    /\ LoadedLayout
    /\ Len(units_data) = 10
    /\ GridCols(10) = 4
    /\ GridRows(10) = 3
    /\ drawn[10].cell = Some([row |-> 2, col |-> 1])

(***************************************************************************)
(* C14: the working list of main() and what reaches the exporters.         *)
(***************************************************************************)
ValidUnit(u) == u.id # "" /\ u.geometry.outcome = "ok"

\* every unit of the working list is valid, and the exporters were given
\* nothing or the whole, non-empty working list
ValidListExported ==
    /\ \A k \in 1..Len(units) : ValidUnit(units[k])
    /\ downloads # NoDownloads =>
          /\ units # <<>>
          /\ downloads.pdf = Some(units)
          /\ Len(downloads.dxf) = Len(units)
          /\ \A k \in 1..Len(units) :
                /\ ValidUnit(units[k])
                /\ downloads.dxf[k].geometry = units[k].geometry

\* a submission with an empty id or with input the solver rejects leaves the
\* working list as it was
RejectedLeavesList ==
    (/\ event'.kind = "submit"
     /\ \/ event'.unit_id = ""
        \/ SolveForm(event'.args).outcome # "ok")
    => units' = units

\* C14: after any sequence of submissions, removals and "clear all" every
\* unit of the working list has a non-empty id and a geometry the solver
\* accepted, a submission with an empty id or with rejected input leaves the
\* list unchanged, and the exporters are only ever given a non-empty list of
\* valid units.
C14_OnlyValidUnitsExported ==
    []ValidListExported /\ [][RejectedLeavesList]_vars

\* a submission with rejected input has been handled with the working list
\* full: the list is unchanged and the exporters were given its units
C14_RejectedWithFullList ==
    /\ event.kind = "submit"
    /\ event.unit_id = "A"
    /\ SolveForm(event.args).outcome = "ValueError"
    /\ Len(units) = MaxSessionUnits
    /\ downloads.pdf = Some(units)

====
